---- MODULE Spec2Model ----
(***************************************************************************)
(* A model of the pvpn reverse TCP tunnel.                                 *)
(*                                                                         *)
(* Two implementations of the multiplexer live in the repository:          *)
(*   - the task based one (src/bin/server/server.rs and                    *)
(*     src/bin/client/client.rs): one reader per peer, one worker per      *)
(*     flow, a bounded queue per flow and a mutex around the write half    *)
(*     of the control link.  Specification Spec.                           *)
(*   - the event-loop one (src/tunnel_server.rs, src/tunnel_client.rs,     *)
(*     src/streams.rs): one poll loop per peer, every handler runs to      *)
(*     completion.  Specification SpecMio.                                 *)
(*                                                                         *)
(* A payload chunk is the unit of data: the pair <<f, k>> is the k-th      *)
(* chunk read from the socket of flow f (in one direction).  A frame on    *)
(* the wire is two units written one after the other: the length prefix    *)
(* with the header ("H"), then the payload ("P").                          *)
(***************************************************************************)
EXTENDS Integers, Sequences, FiniteSets, TLC

\* ---------------------------------------------------------------- bounds
NIds == 2                    \* number of distinct flow ids the Server can mint
MaxPub == 2                  \* chunks the public callers send in a run
MaxOrg == 1                  \* chunks the origin sends in a run
MaxAccept == 2               \* public connections accepted in a run
MaxFlows == 1                \* public connections a tunnel_handler accepts
MaxDial == 2                 \* control connections the event-loop Client dials
LinkCap == 2                 \* frames the socket buffers of one direction hold

\* ------------------------------------------------------------- constants
QueueCap == 32               \* mpsc::channel(32)

TUNNEL_STREAM == 2           \* the Server's token of the control stream
FirstToken == 4              \* let mut token_id: usize = 4
PACKET_VERSION == 1          \* const PACKET_VERSION: u8 = 1
SCRATCH_SIZE == 8192         \* const SCRATCH_SIZE: usize = 8 * 1024
HeaderBufLen == 64           \* let mut buf: [u8; 64]
ReadBufferLen == 8196        \* let mut read_buffer: [u8; 8196]

Ids == 1..NIds

\* The handles a caller stores: a ThreadCtx (the sender of a worker's queue)
\* or a ClientStream.
Handles == {"ctx_a", "ctx_b", "ctx_c"}
None == "None"
Unit == "()"
NoChunk == <<>>

\* The tokens of the event-loop peers: the ids tunnel_handler mints, and the
\* Server's own token of the control stream, which a frame may bear too.
MIds == FirstToken..(FirstToken + MaxFlows - 1)
CTok == {TUNNEL_STREAM} \cup MIds

VARIABLES
    \* ---- the control connection
    link,          \* "down" | "pending" (dialled, not yet accepted) | "up"
    s2c,           \* units in flight, Server -> Client
    c2s,           \* units in flight, Client -> Server
    \* ---- Server (src/bin/server/server.rs)
    spc,           \* main: "accept" (listener.accept) | "serve" (client_handler) |
                   \* "insert" (client_handler between threads.spawn and insert)
    s_conn_table,  \* keys of client_handler's conn_table
    iw,            \* internet_loop of each id: "none","idle","lock","pay","done"
    ibuf,          \* the chunk internet_loop read and is sending
    stx,           \* per-flow queue, reader -> internet_loop
    cwriter_mtx,   \* holder of the writer mutex, 0 when free
    pubIn,         \* chunks the public caller sent, not yet read
    pubN,          \* chunks the public callers have sent so far
    nAccept,       \* public connections accepted so far
    pubEof,        \* the public caller closed its connection
    rdPub,         \* chunks internet_loop read from the public socket
    pubOut,        \* chunks written to the public socket, in order
    slast,         \* why client_handler last left its loop
    \* ---- Client (src/bin/client/client.rs)
    cpc,           \* main: "dial" | "run" (read_loop) | "sleep"
    c_conn_table,  \* keys of read_loop's conn_table
    ew,            \* endpoint_loop of each id: "none","connecting","idle",...,"done"
    ebuf,          \* the chunk endpoint_loop read and is sending
    crx,           \* per-flow queue, reader -> endpoint_loop
    swriter_mtx,   \* holder of the writer mutex, 0 when free
    orgIn,         \* chunks the origin sent, not yet read
    orgN,          \* chunks the origin has sent so far
    orgEof,        \* the origin closed the connection
    rdOrg,         \* chunks endpoint_loop read from origin sockets of the id
    orgOut,        \* chunks written to origin sockets of the id, in order
    elast,         \* why endpoint_loop of the id last returned
    clast,         \* why read_loop last returned
    cdropped,      \* the ids read_loop held when it last returned
    \* ---- the event-loop peers: the control connection
    mlink,         \* "down" | "pending" | "up"
    ms2c,          \* frames in flight, Server -> Client
    mc2s,          \* frames in flight, Client -> Server
    \* ---- Server (src/tunnel_server.rs, src/streams.rs)
    mspc,          \* server_main: "accept" (tunnel_accept) | "serve" (tunnel_handler)
                   \*   | "fatal" (left by break on AddrInUse)
                   \*   | "failed" (left by `?` on an error of tunnel_accept)
    token_id,      \* the next token tunnel_handler mints
    s_map,         \* flow tokens in streams.map (besides TUNNEL_STREAM)
    s_in,          \* chunks the public caller sent, not yet read
    s_eof,         \* the public caller closed its connection
    s_out,         \* chunks written to the public socket, in order
    s_rd,          \* DATA frames the Server produced for the token
    s_got,         \* DATA frames the Server received bearing the token
    s_term,        \* the Server sent or received a terminal frame for the token
    s_decode_failed, \* read_packet failed to decode in this session
    mPubN,         \* chunks the public callers have sent so far
    \* ---- Client (src/tunnel_client.rs, src/streams.rs)
    mcpc,          \* client_main: "dial" | "run" (read_loop) | "sleep"
    c_map,         \* per token: "absent" | "connecting" | "connected"
    out_bytes,     \* ClientStream.out_bytes: payloads pushed before the connect
    o_conn,        \* the origin connection: "none","inprogress","established","refused"
    o_in,          \* chunks the origin sent, not yet read
    o_eof,         \* the origin closed the connection
    o_out,         \* chunks written to origin sockets of the token, in order
    c_rd,          \* DATA frames the Client produced for the token
    c_got,         \* DATA frames the Client received bearing the token
    c_term,        \* the Client sent or received a terminal frame for the token
    mOrgN,         \* chunks the origin has sent so far
    mDials,        \* control connections client_main has dialled so far
    rival,         \* a second Client's connection to the tunnel port: "idle" |
                   \*   "pending" | "refused" | "served" | "closed" (by it)
    \* ---- the codec (src/packet.rs), exercised on its own
    x_pc,          \* "idle" | "written" | "read"
    x_frame,       \* the header fields and the payload handed to the writer
    x_wire,        \* the bytes on the stream
    x_res,         \* what PacketStream::read returned
    \* ---- the flow table on its own
    map,           \* id -> handle of the flow's worker or stream, or None
    t_call,        \* the last call made on the table
    t_ret,         \* what that call returned to its caller
    \* ---- one flow under load: the queues and the control connection
    b_s2c,         \* frames written to the control connection, Server -> Client, unread
    b_c2s,         \* the same, Client -> Server
    b_stx,         \* frames in the queue of the Server's worker
    b_crx,         \* frames in the queue of the Client's worker
    b_spc,         \* Server's reader: "read" | "send" (in tx.send with a packet)
    b_cpc,         \* Client's reader: "read" | "send"
    b_iw,          \* Server's worker: "select" | "write" (holds the writer, in ps.write)
    b_ew,          \* Client's worker: "select" | "write"
    \* --- TokenStreams' control-link input buffer (streams.rs)
    tun_input,     \* BytesMut: bytes received on the control link, not yet consumed
    r_wire,        \* bytes the peer has written that flush_read has not yet read
    r_map,         \* tokens of the flows in TokenStreams::map
    r_ret,         \* what the last read_packet returned
    r_sent,        \* number of frames the peer has written
    \* --- PacketStream::write_data on a writer that may fail (packet.rs)
    w_wire,        \* bytes the writer accepted
    w_call,        \* the last call: its arguments and where the writer failed
    w_ret          \* what the last call returned

linkVars == <<link, s2c, c2s>>
srvVars == <<spc, s_conn_table, iw, ibuf, stx, cwriter_mtx, slast>>
pubVars == <<pubIn, pubN, nAccept, pubEof, rdPub, pubOut>>
cliVars == <<cpc, c_conn_table, ew, ebuf, crx, swriter_mtx, clast, cdropped>>
orgVars == <<orgIn, orgN, orgEof, rdOrg, orgOut, elast>>

tokVars == <<linkVars, srvVars, pubVars, cliVars, orgVars>>

mlinkVars == <<mlink, ms2c, mc2s>>
msrvVars == <<mspc, token_id, s_map, s_in, s_eof, s_out, s_rd, s_got, s_term,
              s_decode_failed>>
mcliVars == <<mcpc, c_map, out_bytes, o_conn, o_in, o_eof, o_out, c_rd, c_got,
              c_term>>
mioVars == <<mlinkVars, msrvVars, mcliVars, mPubN, mOrgN, mDials, rival>>

codecVars == <<x_pc, x_frame, x_wire, x_res>>

tblVars == <<map, t_call, t_ret>>

bpVars == <<b_s2c, b_c2s, b_stx, b_crx, b_spc, b_cpc, b_iw, b_ew>>

inVars == <<tun_input, r_wire, r_map, r_ret, r_sent>>

wrVars == <<w_wire, w_call, w_ret>>

ioVars == <<inVars, wrVars>>

vars == <<tokVars, mioVars, codecVars, tblVars, bpVars, ioVars>>

\* ------------------------------------------------------------- helpers

Header(f) == [t |-> "H", id |-> f, data |-> NoChunk]
Payload(f, d) == [t |-> "P", id |-> f, data |-> d]
Packet(f, d) == [addr |-> f, data |-> d]

\* A whole frame is at the head of the wire: its header and its payload.
FrameReady(w) ==
    /\ Len(w) >= 2
    /\ w[1].t = "H"
    /\ w[2].t = "P"
    /\ w[2].id = w[1].id

\* Variant: the write half is taken without waiting for its holder.
MutexFreeAlways(m) == TRUE

\* A channel that takes a frame whatever it holds.
HasCapacityAlways(n) == TRUE

\* mpsc::channel(32): tx.send(packet).await completes only while the channel
\* holds fewer than 32 packets; until then the sender waits.
HasCapacity(n) == n < QueueCap

\* tokio::sync::Mutex::lock: the caller proceeds only when nobody holds it.
MutexFree(m) == m = 0

\* HashMap::get / entry: the queue a frame bearing addr is sent to.
Route(addr) == addr

AllIds(v) == [f \in Ids |-> v]
AllTok(v) == [f \in CTok |-> v]

Init ==
    /\ link = "down"
    /\ s2c = <<>>
    /\ c2s = <<>>
    /\ spc = "accept"
    /\ s_conn_table = {}
    /\ iw = AllIds("none")
    /\ ibuf = AllIds(NoChunk)
    /\ stx = AllIds(<<>>)
    /\ cwriter_mtx = 0
    /\ pubIn = AllIds(0)
    /\ pubN = 0
    /\ nAccept = 0
    /\ pubEof = AllIds(FALSE)
    /\ rdPub = AllIds(0)
    /\ pubOut = AllIds(<<>>)
    /\ slast = "none"
    /\ cpc = "dial"
    /\ c_conn_table = {}
    /\ ew = AllIds("none")
    /\ ebuf = AllIds(NoChunk)
    /\ crx = AllIds(<<>>)
    /\ swriter_mtx = 0
    /\ orgIn = AllIds(0)
    /\ orgN = 0
    /\ orgEof = AllIds(FALSE)
    /\ rdOrg = AllIds(0)
    /\ orgOut = AllIds(<<>>)
    /\ elast = AllIds("none")
    /\ clast = "none"
    /\ cdropped = {}
    /\ mlink = "down"
    /\ ms2c = <<>>
    /\ mc2s = <<>>
    /\ mspc = "accept"
    /\ token_id = FirstToken
    /\ s_map = {}
    /\ s_in = AllTok(0)
    /\ s_eof = AllTok(FALSE)
    /\ s_out = AllTok(<<>>)
    /\ s_rd = AllTok(0)
    /\ s_got = AllTok(0)
    /\ s_term = AllTok(FALSE)
    /\ s_decode_failed = FALSE
    /\ mPubN = 0
    /\ mcpc = "dial"
    /\ c_map = AllTok("absent")
    /\ out_bytes = AllTok(<<>>)
    /\ o_conn = AllTok("none")
    /\ o_in = AllTok(0)
    /\ o_eof = AllTok(FALSE)
    /\ o_out = AllTok(<<>>)
    /\ c_rd = AllTok(0)
    /\ c_got = AllTok(0)
    /\ c_term = AllTok(FALSE)
    /\ mOrgN = 0
    /\ mDials = 0
    /\ rival = "idle"
    /\ x_pc = "idle"
    /\ x_frame = <<>>
    /\ x_wire = <<>>
    /\ x_res = <<>>
    /\ map = [k \in Ids |-> None]
    /\ t_call = [op |-> "new"]
    /\ t_ret = None
    /\ b_s2c = 0
    /\ b_c2s = 0
    /\ b_stx = 0
    /\ b_crx = 0
    /\ b_spc = "read"
    /\ b_cpc = "read"
    /\ b_iw = "select"
    /\ b_ew = "select"
    /\ tun_input = <<>>
    /\ r_wire = <<>>
    /\ r_map = {FirstToken}
    /\ r_ret = [kind |-> "none"]
    /\ r_sent = 0
    /\ w_wire = <<>>
    /\ w_call = [op |-> "none"]
    /\ w_ret = "none"

\* ------------------------------------------------- Server: client_handler

\* What is left of conn_table when client_handler returns.
DroppedTable(t) == {}

\* client_handler leaves its loop (break), shuts every worker down and
\* returns to main, which loops back to listener.accept().
ServerLeave(cause) ==
    /\ spc' = "accept"
    /\ slast' = cause
    /\ s_conn_table' = DroppedTable(s_conn_table)
    /\ iw' = AllIds("none")
    /\ ibuf' = AllIds(NoChunk)
    /\ stx' = AllIds(<<>>)
    /\ cwriter_mtx' = 0
    /\ pubIn' = AllIds(0)
    /\ UNCHANGED <<pubN, nAccept>>
    /\ pubEof' = AllIds(FALSE)
    /\ rdPub' = AllIds(0)
    /\ pubOut' = AllIds(<<>>)
    /\ link' = IF link = "up" THEN "down" ELSE link
    /\ s2c' = <<>>
    /\ c2s' = <<>>
    /\ UNCHANGED <<codecVars, tblVars, bpVars, ioVars, mioVars, cliVars, orgVars>>

\* main: listener.accept() returns the Client's connection.
S_AcceptControl ==
    /\ spc = "accept"
    /\ link = "pending"
    /\ spc' = "serve"
    /\ link' = "up"
    /\ slast' = "none"
    /\ UNCHANGED <<codecVars, tblVars, bpVars, ioVars, mioVars, s2c, c2s, s_conn_table, iw, ibuf, stx, cwriter_mtx,
                   pubVars, cliVars, orgVars>>

\* A table insert that never finds the key present.
AlreadyInTableNever(table, addr) == FALSE

\* conn_table.insert(addr, ctx).is_some(): the key was present before the
\* insert.
AlreadyInTable(table, addr) == addr \in table

\* A select loop that polls its reader while the handler of another branch
\* is still running.
ReaderMayRunAlways(pc) == pc \in {"serve", "insert"}

\* tokio::select! in client_handler: one task runs both branches, so
\* ps.read is polled only when no branch handler is in progress.
ReaderMayRun(pc) == pc = "serve"

\* client_handler, branch ilistener.accept(): a public caller connected and
\* its address hashes to id; threads.spawn starts the worker, which runs
\* from here on.  The insert follows in S_Insert.
S_AcceptPublic(id) ==
    /\ spc = "serve"
    /\ nAccept < MaxAccept
    /\ \/ /\ ~AlreadyInTable(s_conn_table, id)
          /\ spc' = "insert"
          /\ iw' = [iw EXCEPT ![id] = "idle"]
          /\ nAccept' = nAccept + 1
          /\ UNCHANGED <<codecVars, tblVars, bpVars, ioVars, mioVars, linkVars, s_conn_table, ibuf, stx,
                         cwriter_mtx, slast, pubIn, pubN, pubEof, rdPub, pubOut, cliVars,
                         orgVars>>
       \/ /\ AlreadyInTable(s_conn_table, id)
          /\ ServerLeave("dup_id")

\* client_handler, same branch: conn_table.insert(addr, ctx) for the worker
\* just spawned; the handler is done and the loop selects again.
S_Insert(id) ==
    /\ spc = "insert"
    /\ iw[id] # "none"
    /\ id \notin s_conn_table
    /\ s_conn_table' = s_conn_table \cup {id}
    /\ spc' = "serve"
    /\ UNCHANGED <<codecVars, tblVars, bpVars, ioVars, mioVars, linkVars, iw, ibuf, stx, cwriter_mtx, slast,
                   pubVars, cliVars, orgVars>>

\* client_handler, branch ps.read(&mut creader).
S_Read ==
    /\ ReaderMayRun(spc)
    /\ \/ /\ link # "up"
          /\ ServerLeave("link")
       \/ /\ link = "up"
          /\ FrameReady(c2s)
          /\ LET key == Route(c2s[1].id)
                 pkt == Packet(c2s[1].id, c2s[2].data)
             IN  \/ /\ key \notin s_conn_table
                    /\ ServerLeave("unknown_id")
                 \/ /\ key \in s_conn_table
                    /\ iw[key] = "done"
                    /\ ServerLeave("send_failed")
                 \/ /\ key \in s_conn_table
                    /\ iw[key] # "done"
                    /\ HasCapacity(Len(stx[key]))
                    /\ stx' = [stx EXCEPT ![key] = Append(@, pkt)]
                    /\ c2s' = SubSeq(c2s, 3, Len(c2s))
                    /\ UNCHANGED <<codecVars, tblVars, bpVars, ioVars, mioVars, link, s2c, spc, s_conn_table, iw, ibuf,
                                   cwriter_mtx, slast, pubVars, cliVars, orgVars>>

\* --------------------------------------------------- Server: internet_loop

\* branch istream.readable(): try_read returned a chunk.
I_Read(f) ==
    /\ iw[f] = "idle"
    /\ pubIn[f] > 0
    /\ pubIn' = [pubIn EXCEPT ![f] = @ - 1]
    /\ rdPub' = [rdPub EXCEPT ![f] = @ + 1]
    /\ ibuf' = [ibuf EXCEPT ![f] = <<f, rdPub[f] + 1>>]
    /\ iw' = [iw EXCEPT ![f] = "lock"]
    /\ UNCHANGED <<codecVars, tblVars, bpVars, ioVars, mioVars, linkVars, spc, s_conn_table, stx, cwriter_mtx, slast,
                   pubN, nAccept, pubEof, pubOut, cliVars, orgVars>>

\* branch istream.readable(): try_read returned 0, the worker returns
\* Err(EOF); its receiver is dropped with it.
I_Eof(f) ==
    /\ iw[f] = "idle"
    /\ pubIn[f] = 0
    /\ pubEof[f]
    /\ iw' = [iw EXCEPT ![f] = "done"]
    /\ stx' = [stx EXCEPT ![f] = <<>>]
    /\ UNCHANGED <<codecVars, tblVars, bpVars, ioVars, mioVars, linkVars, spc, s_conn_table, ibuf, cwriter_mtx, slast,
                   pubVars, cliVars, orgVars>>

\* cwriter_mtx.lock().await, then ps.write: the length prefix and the
\* header.  A write on a dead connection fails: the worker returns and the
\* guard is dropped.
I_Header(f) ==
    /\ iw[f] = "lock"
    /\ MutexFree(cwriter_mtx)
    /\ \/ /\ link = "up"
          /\ s2c' = Append(s2c, Header(f))
          /\ iw' = [iw EXCEPT ![f] = "pay"]
          /\ cwriter_mtx' = f
          /\ UNCHANGED <<codecVars, tblVars, bpVars, ioVars, mioVars, link, c2s, spc, s_conn_table, ibuf, stx,
                         slast, pubVars, cliVars, orgVars>>
       \/ /\ link # "up"
          /\ iw' = [iw EXCEPT ![f] = "done"]
          /\ stx' = [stx EXCEPT ![f] = <<>>]
          /\ UNCHANGED <<codecVars, tblVars, bpVars, ioVars, mioVars, linkVars, spc, s_conn_table, ibuf, cwriter_mtx, slast,
                         pubVars, cliVars, orgVars>>

\* ps.write: the payload; then the guard is dropped.
I_Payload(f) ==
    /\ iw[f] = "pay"
    /\ \/ /\ link = "up"
          /\ s2c' = Append(s2c, Payload(f, ibuf[f]))
          /\ iw' = [iw EXCEPT ![f] = "idle"]
          /\ ibuf' = [ibuf EXCEPT ![f] = NoChunk]
          /\ cwriter_mtx' = 0
          /\ UNCHANGED <<codecVars, tblVars, bpVars, ioVars, mioVars, link, c2s, spc, s_conn_table, stx, slast,
                         pubVars, cliVars, orgVars>>
       \/ /\ link # "up"
          /\ iw' = [iw EXCEPT ![f] = "done"]
          /\ stx' = [stx EXCEPT ![f] = <<>>]
          /\ cwriter_mtx' = 0
          /\ UNCHANGED <<codecVars, tblVars, bpVars, ioVars, mioVars, linkVars, spc, s_conn_table, ibuf, slast,
                         pubVars, cliVars, orgVars>>

\* branch rx.recv(): the payload of the packet is written to the public
\* socket.
I_Recv(f) ==
    /\ iw[f] = "idle"
    /\ stx[f] # <<>>
    /\ pubOut' = [pubOut EXCEPT ![f] = Append(@, Head(stx[f]).data)]
    /\ stx' = [stx EXCEPT ![f] = Tail(@)]
    /\ UNCHANGED <<codecVars, tblVars, bpVars, ioVars, mioVars, linkVars, spc, s_conn_table, iw, ibuf, cwriter_mtx, slast,
                   pubIn, pubN, nAccept, pubEof, rdPub, cliVars, orgVars>>

\* ------------------------------------------------------ the public callers

PubOpen(f) == iw[f] \notin {"none", "done"}

PubSend(f) ==
    /\ PubOpen(f)
    /\ ~pubEof[f]
    /\ pubN < MaxPub
    /\ pubN' = pubN + 1
    /\ pubIn' = [pubIn EXCEPT ![f] = @ + 1]
    /\ UNCHANGED <<codecVars, tblVars, bpVars, ioVars, mioVars, linkVars, srvVars, nAccept, pubEof, rdPub, pubOut, cliVars, orgVars>>

PubClose(f) ==
    /\ PubOpen(f)
    /\ pubIn[f] = 0
    /\ ~pubEof[f]
    /\ pubEof' = [pubEof EXCEPT ![f] = TRUE]
    /\ UNCHANGED <<codecVars, tblVars, bpVars, ioVars, mioVars, linkVars, srvVars, pubIn, pubN, nAccept, rdPub, pubOut, cliVars, orgVars>>

\* ---------------------------------------------------------- Client: main

\* Variant: the table outlives the session.
KeptTable(t) == t

\* What read_loop starts with: conn_table = HashMap::new().
FreshTable(t) == {}

\* read_loop returns: the JoinSet is dropped (every endpoint_loop is
\* aborted, its origin socket closed) and so are conn_table and the
\* control connection; main sleeps and dials again.
ClientLeave(cause) ==
    /\ cpc' = "sleep"
    /\ clast' = cause
    /\ cdropped' = c_conn_table
    /\ c_conn_table' = FreshTable(c_conn_table)
    /\ ew' = AllIds("none")
    /\ ebuf' = AllIds(NoChunk)
    /\ crx' = AllIds(<<>>)
    /\ swriter_mtx' = 0
    /\ orgIn' = AllIds(0)
    /\ UNCHANGED orgN
    /\ orgEof' = AllIds(FALSE)
    /\ rdOrg' = AllIds(0)
    /\ orgOut' = AllIds(<<>>)
    /\ elast' = AllIds("none")
    /\ link' = "down"
    /\ s2c' = <<>>
    /\ c2s' = <<>>
    /\ UNCHANGED <<codecVars, tblVars, bpVars, ioVars, mioVars, srvVars, pubVars>>

\* main: TcpStream::connect(&server_addr), which succeeds or fails.
C_Dial ==
    /\ cpc = "dial"
    /\ \/ /\ cpc' = "run"
          /\ link' = "pending"
          /\ clast' = "none"
          /\ cdropped' = {}
          /\ UNCHANGED <<codecVars, tblVars, bpVars, ioVars, mioVars, s2c, c2s, srvVars, pubVars, c_conn_table, ew, ebuf, crx,
                         swriter_mtx, orgVars>>
       \/ /\ cpc' = "sleep"
          /\ UNCHANGED <<codecVars, tblVars, bpVars, ioVars, mioVars, linkVars, srvVars, pubVars, c_conn_table, ew, ebuf, crx,
                         swriter_mtx, clast, cdropped, orgVars>>

\* main: sleep(500 ms), then the loop dials again.
C_Sleep ==
    /\ cpc = "sleep"
    /\ cpc' = "dial"
    /\ UNCHANGED <<codecVars, tblVars, bpVars, ioVars, mioVars, linkVars, srvVars, pubVars, c_conn_table, ew, ebuf, crx,
                   swriter_mtx, clast, cdropped, orgVars>>

\* ------------------------------------------------------ Client: read_loop

\* A table in which every key is taken to be vacant.
VacantAlways(table, key) == TRUE

\* conn_table.entry(packet.addr).or_insert_with(..): the closure runs, and
\* a worker is spawned, only when the key is vacant.
Vacant(table, key) == key \notin table

\* branch ps.read(&mut sreader).
C_Read ==
    /\ cpc = "run"
    /\ \/ /\ link = "down"
          /\ ClientLeave("link")
       \/ /\ link = "up"
          /\ FrameReady(s2c)
          /\ LET key == Route(s2c[1].id)
                 pkt == Packet(s2c[1].id, s2c[2].data)
             IN  \/ /\ Vacant(c_conn_table, key)
                    /\ c_conn_table' = c_conn_table \cup {key}
                    /\ ew' = [ew EXCEPT ![key] = "connecting"]
                    /\ crx' = [crx EXCEPT ![key] = <<pkt>>]
                    /\ s2c' = SubSeq(s2c, 3, Len(s2c))
                    /\ UNCHANGED <<codecVars, tblVars, bpVars, ioVars, mioVars, link, c2s, srvVars, pubVars, cpc, ebuf,
                                   swriter_mtx, clast, cdropped, orgVars>>
                 \/ /\ key \in c_conn_table
                    /\ ew[key] = "done"
                    /\ ClientLeave("send_failed")
                 \/ /\ key \in c_conn_table
                    /\ ew[key] # "done"
                    /\ HasCapacity(Len(crx[key]))
                    /\ crx' = [crx EXCEPT ![key] = Append(@, pkt)]
                    /\ s2c' = SubSeq(s2c, 3, Len(s2c))
                    /\ UNCHANGED <<codecVars, tblVars, bpVars, ioVars, mioVars, link, c2s, srvVars, pubVars, cpc, c_conn_table,
                                   ew, ebuf, swriter_mtx, clast, cdropped, orgVars>>

\* branch threads.join_next(): conn_table.remove(&addr).
C_Join(f) ==
    /\ cpc = "run"
    /\ ew[f] = "done"
    /\ c_conn_table' = c_conn_table \ {f}
    /\ ew' = [ew EXCEPT ![f] = "none"]
    /\ UNCHANGED <<codecVars, tblVars, bpVars, ioVars, mioVars, linkVars, srvVars, pubVars, cpc, ebuf, crx, swriter_mtx,
                   clast, cdropped, orgVars>>

\* -------------------------------------------------- Client: endpoint_loop

\* endpoint_loop returns: its receiver and its origin socket are dropped.
E_Return(f, cause) ==
    /\ elast' = [elast EXCEPT ![f] = cause]
    /\ ew' = [ew EXCEPT ![f] = "done"]
    /\ crx' = [crx EXCEPT ![f] = <<>>]
    /\ orgIn' = [orgIn EXCEPT ![f] = 0]
    /\ orgEof' = [orgEof EXCEPT ![f] = FALSE]

\* TcpStream::connect(&endpoint).await?
E_Connect(f) ==
    /\ ew[f] = "connecting"
    /\ \/ /\ ew' = [ew EXCEPT ![f] = "idle"]
          /\ UNCHANGED <<codecVars, tblVars, bpVars, ioVars, mioVars, linkVars, srvVars, pubVars, cpc, c_conn_table, ebuf, crx,
                         swriter_mtx, clast, cdropped, orgVars>>
       \/ /\ E_Return(f, "refused")
          /\ UNCHANGED <<codecVars, tblVars, bpVars, ioVars, mioVars, linkVars, srvVars, pubVars, cpc, c_conn_table, ebuf,
                         swriter_mtx, clast, cdropped, orgN, rdOrg, orgOut>>

\* branch rx.recv(): the payload is written to the origin socket.
E_Recv(f) ==
    /\ ew[f] = "idle"
    /\ crx[f] # <<>>
    /\ orgOut' = [orgOut EXCEPT ![f] = Append(@, Head(crx[f]).data)]
    /\ crx' = [crx EXCEPT ![f] = Tail(@)]
    /\ UNCHANGED <<codecVars, tblVars, bpVars, ioVars, mioVars, linkVars, srvVars, pubVars, cpc, c_conn_table, ew, ebuf,
                   swriter_mtx, clast, cdropped, orgIn, orgN, orgEof, rdOrg, elast>>

\* branch stream.readable(): try_read returned a chunk.
E_Read(f) ==
    /\ ew[f] = "idle"
    /\ orgIn[f] > 0
    /\ orgIn' = [orgIn EXCEPT ![f] = @ - 1]
    /\ rdOrg' = [rdOrg EXCEPT ![f] = @ + 1]
    /\ ebuf' = [ebuf EXCEPT ![f] = <<f, rdOrg[f] + 1>>]
    /\ ew' = [ew EXCEPT ![f] = "lock"]
    /\ UNCHANGED <<codecVars, tblVars, bpVars, ioVars, mioVars, linkVars, srvVars, pubVars, cpc, c_conn_table, crx,
                   swriter_mtx, clast, cdropped, orgN, orgEof, orgOut, elast>>

\* branch stream.readable(): try_read returned 0, endpoint_loop returns
\* Err(EOF).
E_Eof(f) ==
    /\ ew[f] = "idle"
    /\ orgIn[f] = 0
    /\ orgEof[f]
    /\ E_Return(f, "eof")
    /\ UNCHANGED <<codecVars, tblVars, bpVars, ioVars, mioVars, linkVars, srvVars, pubVars, cpc, c_conn_table, ebuf,
                   swriter_mtx, clast, cdropped, orgN, rdOrg, orgOut>>

\* swriter_mtx.lock().await, then ps.write: the length prefix and the
\* header.
E_Header(f) ==
    /\ ew[f] = "lock"
    /\ MutexFree(swriter_mtx)
    /\ \/ /\ link = "up"
          /\ c2s' = Append(c2s, Header(f))
          /\ ew' = [ew EXCEPT ![f] = "pay"]
          /\ swriter_mtx' = f
          /\ UNCHANGED <<codecVars, tblVars, bpVars, ioVars, mioVars, link, s2c, srvVars, pubVars, cpc, c_conn_table, ebuf,
                         crx, clast, cdropped, orgVars>>
       \/ /\ link = "down"
          /\ E_Return(f, "write")
          /\ UNCHANGED <<codecVars, tblVars, bpVars, ioVars, mioVars, linkVars, srvVars, pubVars, cpc, c_conn_table, ebuf,
                         swriter_mtx, clast, cdropped, orgN, rdOrg, orgOut>>

\* ps.write: the payload; then the guard is dropped.
E_Payload(f) ==
    /\ ew[f] = "pay"
    /\ \/ /\ link = "up"
          /\ c2s' = Append(c2s, Payload(f, ebuf[f]))
          /\ ew' = [ew EXCEPT ![f] = "idle"]
          /\ ebuf' = [ebuf EXCEPT ![f] = NoChunk]
          /\ swriter_mtx' = 0
          /\ UNCHANGED <<codecVars, tblVars, bpVars, ioVars, mioVars, link, s2c, srvVars, pubVars, cpc, c_conn_table, crx,
                         clast, cdropped, orgVars>>
       \/ /\ link = "down"
          /\ E_Return(f, "write")
          /\ swriter_mtx' = 0
          /\ UNCHANGED <<codecVars, tblVars, bpVars, ioVars, mioVars, linkVars, srvVars, pubVars, cpc, c_conn_table, ebuf,
                         clast, cdropped, orgN, rdOrg, orgOut>>

\* -------------------------------------------------------------- the origin

OrgOpen(f) == ew[f] \in {"idle", "lock", "hdr", "pay"}

OrgSend(f) ==
    /\ OrgOpen(f)
    /\ ~orgEof[f]
    /\ orgN < MaxOrg
    /\ orgN' = orgN + 1
    /\ orgIn' = [orgIn EXCEPT ![f] = @ + 1]
    /\ UNCHANGED <<codecVars, tblVars, bpVars, ioVars, mioVars, linkVars, srvVars, pubVars, cliVars, orgEof, rdOrg, orgOut,
                   elast>>

OrgClose(f) ==
    /\ OrgOpen(f)
    /\ orgIn[f] = 0
    /\ ~orgEof[f]
    /\ orgEof' = [orgEof EXCEPT ![f] = TRUE]
    /\ UNCHANGED <<codecVars, tblVars, bpVars, ioVars, mioVars, linkVars, srvVars, pubVars, cliVars, orgIn, orgN, rdOrg,
                   orgOut, elast>>

\* ----------------------------------------------------------- the network

\* The control connection breaks: what was in flight is lost.
LinkBreak ==
    /\ link # "down"
    /\ link' = "down"
    /\ s2c' = <<>>
    /\ c2s' = <<>>
    /\ UNCHANGED <<codecVars, tblVars, bpVars, ioVars, mioVars, srvVars, pubVars, cliVars, orgVars>>

\* ============================================================ event loop
\* The second implementation: one mio event loop per peer.  Every handler
\* of an event runs to completion, so each is one action; a frame is
\* written to the control stream by one write_packet / write_message call
\* and travels whole.

MFrame(k, f, d, n) == [kind |-> k, id |-> f, data |-> d, after |-> n]

\* PacketMessage: every kind but Data ends the flow it bears.
Terminal(k) == k \in {"Disconnected", "ConnectionRefused", "IoFailure"}

\* Variant: a message overtakes what is already queued on the stream.
WireSendUrgent(w, fr) == IF fr.kind = "Data" THEN Append(w, fr) ELSE <<fr>> \o w

\* streams.write_packet / write_message: the frame is encoded and written
\* to the tunnel stream at once, behind whatever was written before.
WireSend(w, fr) == Append(w, fr)

\* Bytes written to the control stream that are no frame.
RawBytes(d) == MFrame("Raw", 0, d, 0)

\* Decoding succeeds on every frame of the protocol, whatever its kind,
\* and fails on everything else.
Decodes(u) == u.kind # "Raw"

\* Variant: the tunnel port is open whatever server_main is doing.
ListeningAlways(pc) == TRUE

\* The tunnel port is open while tunnel_accept runs: it binds the
\* listener, and the listener is dropped when it returns.
Listening(pc) == pc = "accept"

\* The control connection tunnel_handler serves is alive.
TunnelUp == mlink = "up" \/ rival = "served"

\* A frame written to the control connection reaches the Client if the
\* connection is the Client's.
ToClient(w, fr) == IF mlink = "up" THEN WireSend(w, fr) ELSE w

\* tunnel_handler returns (with `?` or Err): its poll and streams are
\* dropped, every socket with them, and server_main loops to tunnel_accept.
MServerLeave ==
    /\ mspc' = "accept"
    /\ token_id' = FirstToken
    /\ s_map' = {}
    /\ s_in' = AllTok(0)
    /\ s_eof' = AllTok(FALSE)
    /\ s_out' = AllTok(<<>>)
    /\ s_rd' = AllTok(0)
    /\ s_got' = AllTok(0)
    /\ s_term' = AllTok(FALSE)
    /\ s_decode_failed' = FALSE
    /\ mlink' = IF mlink = "up" THEN "down" ELSE mlink
    /\ ms2c' = <<>>
    /\ mc2s' = <<>>
    /\ rival' = IF rival \in {"served", "closed"} THEN "idle" ELSE rival
    /\ UNCHANGED <<mcliVars, mPubN, mOrgN, mDials, tokVars, codecVars, tblVars, bpVars, ioVars>>

\* tunnel_accept: the first connection on the tunnel port is the control
\* connection; tunnel_handler starts with an empty map and token_id 4.
MS_AcceptControl ==
    /\ Listening(mspc)
    /\ mlink = "pending"
    /\ mlink' = "up"
    /\ mspc' = "serve"
    /\ rival' = IF rival = "pending" THEN "refused" ELSE rival
    /\ UNCHANGED <<ms2c, mc2s, token_id, s_map, s_in, s_eof, s_out, s_rd, s_got,
                   s_term, s_decode_failed, mcliVars, mPubN, mOrgN, mDials,
                   tokVars, codecVars, tblVars, bpVars, ioVars>>

\* tunnel_accept: the connection it accepts is the second Client's; the
\* Client's own, if it waits in the backlog, is reset with the listener.
MS_AcceptRival ==
    /\ Listening(mspc)
    /\ rival = "pending"
    /\ rival' = "served"
    /\ mspc' = "serve"
    /\ mlink' = IF mlink = "pending" THEN "down" ELSE mlink
    /\ UNCHANGED <<ms2c, mc2s, token_id, s_map, s_in, s_eof, s_out, s_rd, s_got,
                   s_term, s_decode_failed, mcliVars, mPubN, mOrgN, mDials,
                   tokVars, codecVars, tblVars, bpVars, ioVars>>

\* tunnel_handler cannot bind the public port, which another process holds:
\* Err(Io(AddrInUse)), and server_main breaks out of its loop.
MS_BindFails ==
    /\ mspc = "accept"
    /\ mlink = "pending"
    /\ mlink' = "down"
    /\ mspc' = "fatal"
    /\ rival' = IF rival = "pending" THEN "refused" ELSE rival
    /\ UNCHANGED <<ms2c, mc2s, token_id, s_map, s_in, s_eof, s_out, s_rd, s_got,
                   s_term, s_decode_failed, mcliVars, mPubN, mOrgN, mDials, tokVars, codecVars, tblVars, bpVars, ioVars>>

\* tunnel_accept fails: poll or accept returns an error (a signal, a
\* connection that was reset in the backlog, no descriptor left, ...) and
\* server_main returns it with `?`.
MS_AcceptFails ==
    /\ mspc = "accept"
    /\ mlink = "pending"
    /\ mlink' = "down"
    /\ mspc' = "failed"
    /\ rival' = IF rival = "pending" THEN "refused" ELSE rival
    /\ UNCHANGED <<ms2c, mc2s, token_id, s_map, s_in, s_eof, s_out, s_rd, s_got,
                   s_term, s_decode_failed, mcliVars, mPubN, mOrgN, mDials, tokVars, codecVars, tblVars, bpVars, ioVars>>

\* INTERNET_PORT is readable: accept, register under token_id, add to the
\* map, token_id += 1.
MS_AcceptPublic ==
    /\ mspc = "serve"
    /\ token_id < FirstToken + MaxFlows
    /\ s_map' = s_map \cup {token_id}
    /\ token_id' = token_id + 1
    /\ UNCHANGED <<mlinkVars, mspc, s_in, s_eof, s_out, s_rd, s_got, s_term,
                   s_decode_failed, mcliVars, mPubN, mOrgN, mDials, rival, tokVars, codecVars, tblVars, bpVars, ioVars>>

\* TUNNEL_STREAM is readable: flush_read, then read_packet and
\* streams.write(dst_addr, payload).  The kind of the frame is not looked at.
MS_TunnelReadable ==
    /\ mspc = "serve"
    /\ \/ /\ ~TunnelUp
          /\ MServerLeave
       \/ /\ mlink = "up"
          /\ mc2s # <<>>
          /\ ~Decodes(Head(mc2s))
          \* read_packet fails to decode: warn!, break; the handler goes on
          /\ ~s_decode_failed
          /\ s_decode_failed' = TRUE
          /\ UNCHANGED <<mlinkVars, mspc, token_id, s_map, s_in, s_eof, s_out,
                         s_rd, s_got, s_term, mcliVars, mPubN, mOrgN, mDials, rival, tokVars, codecVars, tblVars, bpVars, ioVars>>
       \/ /\ mlink = "up"
          /\ mc2s # <<>>
          /\ Decodes(Head(mc2s))
          /\ LET fr == Head(mc2s) IN
             /\ mc2s' = Tail(mc2s)
             /\ s_got' = IF fr.kind = "Data"
                         THEN [s_got EXCEPT ![fr.id] = @ + 1] ELSE s_got
             /\ s_term' = IF Terminal(fr.kind)
                          THEN [s_term EXCEPT ![fr.id] = TRUE] ELSE s_term
             /\ \/ /\ fr.id = TUNNEL_STREAM
                   \* the map holds the control stream under this token
                   /\ ms2c' = IF fr.data = NoChunk THEN ms2c
                              ELSE Append(ms2c, RawBytes(fr.data))
                   /\ UNCHANGED s_out
                \/ /\ fr.id \in s_map
                   /\ s_out' = IF fr.data = NoChunk THEN s_out
                               ELSE [s_out EXCEPT ![fr.id] = Append(@, fr.data)]
                   /\ UNCHANGED ms2c
                \/ /\ fr.id \notin s_map \cup {TUNNEL_STREAM}
                   \* ClientNotFound: the message bears event.token()
                   /\ ms2c' = WireSend(ms2c,
                                 MFrame("IoFailure", TUNNEL_STREAM, NoChunk,
                                        s_rd[TUNNEL_STREAM]))
                   /\ UNCHANGED s_out
          /\ UNCHANGED <<mlink, mspc, token_id, s_map, s_in, s_eof, s_rd,
                         s_decode_failed, mcliVars, mPubN, mOrgN, mDials, rival, tokVars, codecVars, tblVars, bpVars, ioVars>>

\* A public socket is readable: streams.read, then write_packet; on Eof or
\* an error streams.read has removed the token and a Disconnected message
\* is written.  A failed write to the tunnel ends tunnel_handler.
MS_FlowReadable(f) ==
    /\ mspc = "serve"
    /\ f \in s_map
    /\ \/ /\ TunnelUp
          /\ s_in[f] > 0
          /\ s_in' = [s_in EXCEPT ![f] = @ - 1]
          /\ s_rd' = [s_rd EXCEPT ![f] = @ + 1]
          /\ ms2c' = ToClient(ms2c, MFrame("Data", f, <<f, s_rd[f] + 1>>, s_rd[f]))
          /\ UNCHANGED <<mlink, mc2s, mspc, token_id, s_map, s_eof, s_out, s_got,
                         s_term, s_decode_failed, mcliVars, mPubN, mOrgN,
                         mDials, rival, tokVars, codecVars, tblVars, bpVars, ioVars>>
       \/ /\ TunnelUp
          /\ s_in[f] = 0
          /\ s_eof[f]
          /\ s_map' = s_map \ {f}
          /\ s_eof' = [s_eof EXCEPT ![f] = FALSE]
          /\ s_term' = [s_term EXCEPT ![f] = TRUE]
          /\ ms2c' = ToClient(ms2c, MFrame("Disconnected", f, NoChunk, s_rd[f]))
          /\ UNCHANGED <<mlink, mc2s, mspc, token_id, s_in, s_out, s_rd, s_got,
                         s_decode_failed, mcliVars, mPubN, mOrgN, mDials, rival, tokVars, codecVars, tblVars, bpVars, ioVars>>
       \/ /\ ~TunnelUp
          /\ s_in[f] > 0 \/ s_eof[f]
          /\ MServerLeave

\* A public caller sends a chunk.
MPubSend(f) ==
    /\ f \in s_map
    /\ ~s_eof[f]
    /\ mPubN < MaxPub
    /\ mPubN' = mPubN + 1
    /\ s_in' = [s_in EXCEPT ![f] = @ + 1]
    /\ UNCHANGED <<mlinkVars, mspc, token_id, s_map, s_eof, s_out, s_rd, s_got,
                   s_term, s_decode_failed, mcliVars, mOrgN, mDials, rival, tokVars, codecVars, tblVars, bpVars, ioVars>>

\* A public caller closes its connection.
MPubClose(f) ==
    /\ f \in s_map
    /\ ~s_eof[f]
    /\ s_in[f] = 0
    /\ s_eof' = [s_eof EXCEPT ![f] = TRUE]
    /\ UNCHANGED <<mlinkVars, mspc, token_id, s_map, s_in, s_out, s_rd, s_got,
                   s_term, s_decode_failed, mcliVars, mPubN, mOrgN, mDials, rival, tokVars, codecVars, tblVars, bpVars, ioVars>>

\* read_loop returns an error: its poll and streams are dropped and
\* client_main sleeps before it dials again.
MClientLeave ==
    /\ mcpc' = "sleep"
    /\ c_map' = AllTok("absent")
    /\ out_bytes' = AllTok(<<>>)
    /\ o_conn' = AllTok("none")
    /\ o_in' = AllTok(0)
    /\ o_eof' = AllTok(FALSE)
    /\ o_out' = AllTok(<<>>)
    /\ c_rd' = AllTok(0)
    /\ c_got' = AllTok(0)
    /\ c_term' = AllTok(FALSE)
    /\ mlink' = "down"
    /\ ms2c' = <<>>
    /\ mc2s' = <<>>
    /\ UNCHANGED <<msrvVars, mPubN, mOrgN, mDials, rival, tokVars, codecVars, tblVars, bpVars, ioVars>>

\* client_main: read_loop connects to the Server, which listens on the
\* tunnel port only while it is in tunnel_accept.
MC_Dial ==
    /\ mcpc = "dial"
    /\ mDials < MaxDial
    /\ mDials' = mDials + 1
    /\ \/ /\ Listening(mspc)
          /\ mlink = "down"
          /\ mlink' = "pending"
          /\ mcpc' = "run"
       \/ /\ ~Listening(mspc)
          /\ mcpc' = "sleep"
          /\ UNCHANGED mlink
    /\ UNCHANGED <<ms2c, mc2s, msrvVars, c_map, out_bytes, o_conn, o_in, o_eof,
                   o_out, c_rd, c_got, c_term, mPubN, mOrgN, rival, tokVars, codecVars, tblVars, bpVars, ioVars>>

\* client_main: the sleep between two attempts is over.
MC_Sleep ==
    /\ mcpc = "sleep"
    /\ mcpc' = "dial"
    /\ UNCHANGED <<mlinkVars, msrvVars, c_map, out_bytes, o_conn, o_in, o_eof,
                   o_out, c_rd, c_got, c_term, mPubN, mOrgN, mDials, rival, tokVars, codecVars, tblVars, bpVars, ioVars>>

\* Forget a token: streams.read removed it and its socket is dropped.
Removed(m, f) == [m EXCEPT ![f] = "absent"]

\* TUNNEL_STREAM is readable: read_packet; a token the map does not hold is
\* dialled at the origin, its payload pushed to out_bytes; a token it holds
\* gets the payload written, and a Disconnected message if that fails.
MC_TunnelReadable ==
    /\ mcpc = "run"
    /\ \/ /\ mlink = "down"
          /\ MClientLeave
       \/ /\ mlink = "up"
          /\ ms2c # <<>>
          /\ ~Decodes(Head(ms2c))
          /\ MClientLeave
       \/ /\ mlink = "up"
          /\ ms2c # <<>>
          /\ Decodes(Head(ms2c))
          /\ LET fr == Head(ms2c) IN
             /\ ms2c' = Tail(ms2c)
             /\ c_got' = IF fr.kind = "Data"
                         THEN [c_got EXCEPT ![fr.id] = @ + 1] ELSE c_got
             /\ \/ /\ c_map[fr.id] = "absent"
                   /\ c_map' = [c_map EXCEPT ![fr.id] = "connecting"]
                   /\ o_conn' = [o_conn EXCEPT ![fr.id] = "inprogress"]
                   /\ out_bytes' = [out_bytes EXCEPT ![fr.id] =
                                      IF fr.data = NoChunk THEN <<>> ELSE <<fr.data>>]
                   /\ c_term' = IF Terminal(fr.kind)
                                THEN [c_term EXCEPT ![fr.id] = TRUE] ELSE c_term
                   /\ UNCHANGED <<mc2s, o_out>>
                \/ /\ c_map[fr.id] # "absent"
                   /\ fr.data = NoChunk \/ o_conn[fr.id] = "established"
                   /\ o_out' = IF fr.data = NoChunk THEN o_out
                               ELSE [o_out EXCEPT ![fr.id] = Append(@, fr.data)]
                   /\ c_term' = IF Terminal(fr.kind)
                                THEN [c_term EXCEPT ![fr.id] = TRUE] ELSE c_term
                   /\ UNCHANGED <<mc2s, c_map, o_conn, out_bytes>>
                \/ /\ c_map[fr.id] # "absent"
                   /\ fr.data # NoChunk
                   /\ o_conn[fr.id] # "established"
                   \* the socket is not connected: the write fails
                   /\ mc2s' = WireSend(mc2s,
                                 MFrame("Disconnected", fr.id, NoChunk, c_rd[fr.id]))
                   /\ c_term' = [c_term EXCEPT ![fr.id] = TRUE]
                   /\ UNCHANGED <<c_map, o_conn, out_bytes, o_out>>
          /\ UNCHANGED <<mlink, mcpc, o_in, o_eof, c_rd, msrvVars, mPubN, mOrgN,
                         mDials, rival, tokVars, codecVars, tblVars, bpVars, ioVars>>

\* An origin socket is readable: streams.read, then write_packet; on Eof
\* or an error streams.read has removed the token and a message is written:
\* ConnectionRefused for a refused dial, Disconnected otherwise.
MC_FlowReadable(f) ==
    /\ mcpc = "run"
    /\ c_map[f] # "absent"
    /\ \/ /\ mlink = "up"
          /\ o_conn[f] = "established"
          /\ o_in[f] > 0
          /\ o_in' = [o_in EXCEPT ![f] = @ - 1]
          /\ c_rd' = [c_rd EXCEPT ![f] = @ + 1]
          /\ mc2s' = WireSend(mc2s, MFrame("Data", f, <<f, c_rd[f] + 1>>, c_rd[f]))
          /\ UNCHANGED <<mlink, ms2c, mcpc, c_map, out_bytes, o_conn, o_eof,
                         o_out, c_got, c_term, msrvVars, mPubN, mOrgN, mDials, rival, tokVars, codecVars, tblVars, bpVars, ioVars>>
       \/ /\ mlink = "up"
          /\ \/ o_conn[f] = "established" /\ o_in[f] = 0 /\ o_eof[f]
             \/ o_conn[f] = "refused"
          /\ c_map' = Removed(c_map, f)
          /\ out_bytes' = [out_bytes EXCEPT ![f] = <<>>]
          /\ o_conn' = [o_conn EXCEPT ![f] = "none"]
          /\ o_eof' = [o_eof EXCEPT ![f] = FALSE]
          /\ c_term' = [c_term EXCEPT ![f] = TRUE]
          /\ mc2s' = WireSend(mc2s,
                        MFrame(IF o_conn[f] = "refused" THEN "ConnectionRefused"
                               ELSE "Disconnected", f, NoChunk, c_rd[f]))
          /\ UNCHANGED <<mlink, ms2c, mcpc, o_in, o_out, c_rd, c_got, msrvVars,
                         mPubN, mOrgN, mDials, rival, tokVars, codecVars, tblVars, bpVars, ioVars>>
       \/ /\ mlink # "up"
          /\ \/ o_conn[f] = "established" /\ (o_in[f] > 0 \/ o_eof[f])
             \/ o_conn[f] = "refused"
          /\ MClientLeave

\* An origin socket is writable: streams.flush.  Until is_connected,
\* complete_connect: a refused dial is an error that ends read_loop; an
\* established one sets is_connected and flush_pre writes out_bytes, all of
\* it or, on WouldBlock, none of it, and clears it.
MC_FlowWritable(f) ==
    /\ mcpc = "run"
    /\ c_map[f] = "connecting"
    /\ \/ /\ o_conn[f] = "refused"
          /\ MClientLeave
       \/ /\ o_conn[f] = "established"
          /\ c_map' = [c_map EXCEPT ![f] = "connected"]
          /\ out_bytes' = [out_bytes EXCEPT ![f] = <<>>]
          /\ \/ o_out' = [o_out EXCEPT ![f] = @ \o out_bytes[f]]
             \/ out_bytes[f] # <<>> /\ UNCHANGED o_out
          /\ UNCHANGED <<mlinkVars, mcpc, o_conn, o_in, o_eof, c_rd, c_got,
                         c_term, msrvVars, mPubN, mOrgN, mDials, rival, tokVars, codecVars, tblVars, bpVars, ioVars>>

\* The origin accepts the connection.
MOrgAccept(f) ==
    /\ o_conn[f] = "inprogress"
    /\ o_conn' = [o_conn EXCEPT ![f] = "established"]
    /\ UNCHANGED <<mlinkVars, msrvVars, mcpc, c_map, out_bytes, o_in, o_eof,
                   o_out, c_rd, c_got, c_term, mPubN, mOrgN, mDials, rival, tokVars, codecVars, tblVars, bpVars, ioVars>>

\* The origin refuses the connection.
MOrgRefuse(f) ==
    /\ o_conn[f] = "inprogress"
    /\ o_conn' = [o_conn EXCEPT ![f] = "refused"]
    /\ UNCHANGED <<mlinkVars, msrvVars, mcpc, c_map, out_bytes, o_in, o_eof,
                   o_out, c_rd, c_got, c_term, mPubN, mOrgN, mDials, rival, tokVars, codecVars, tblVars, bpVars, ioVars>>

\* The origin sends a chunk.
MOrgSend(f) ==
    /\ o_conn[f] = "established"
    /\ ~o_eof[f]
    /\ mOrgN < MaxOrg
    /\ mOrgN' = mOrgN + 1
    /\ o_in' = [o_in EXCEPT ![f] = @ + 1]
    /\ UNCHANGED <<mlinkVars, msrvVars, mcpc, c_map, out_bytes, o_conn, o_eof,
                   o_out, c_rd, c_got, c_term, mPubN, mDials, rival, tokVars, codecVars, tblVars, bpVars, ioVars>>

\* The origin closes the connection.
MOrgClose(f) ==
    /\ o_conn[f] = "established"
    /\ ~o_eof[f]
    /\ o_in[f] = 0
    /\ o_eof' = [o_eof EXCEPT ![f] = TRUE]
    /\ UNCHANGED <<mlinkVars, msrvVars, mcpc, c_map, out_bytes, o_conn, o_in,
                   o_out, c_rd, c_got, c_term, mPubN, mOrgN, mDials, rival, tokVars, codecVars, tblVars, bpVars, ioVars>>

\* The peer of the control connection sends bytes that are no frame of
\* this protocol.
MForeignBytes ==
    /\ mlink = "up"
    /\ mc2s = <<>>
    /\ ~s_decode_failed
    /\ mc2s' = <<RawBytes(NoChunk)>>
    /\ UNCHANGED <<mlink, ms2c, msrvVars, mcliVars, mPubN, mOrgN, mDials, rival, tokVars, codecVars, tblVars, bpVars, ioVars>>

\* The control connection breaks: what was in flight is lost.
MLinkBreak ==
    /\ mlink # "down"
    /\ mlink' = "down"
    /\ ms2c' = <<>>
    /\ mc2s' = <<>>
    /\ UNCHANGED <<msrvVars, mcliVars, mPubN, mOrgN, mDials, rival, tokVars, codecVars, tblVars, bpVars, ioVars>>

\* A second Client dials the tunnel port: its connection waits in the
\* backlog if the port is open and is refused otherwise.
R_Dial ==
    /\ rival = "idle"
    /\ rival' = IF Listening(mspc) THEN "pending" ELSE "refused"
    /\ UNCHANGED <<mlinkVars, msrvVars, mcliVars, mPubN, mOrgN, mDials, tokVars,
                   codecVars, tblVars, bpVars, ioVars>>

\* The second Client gives up an attempt, or closes the connection it has.
R_Close ==
    /\ rival \in {"refused", "served"}
    /\ rival' = IF rival = "served" THEN "closed" ELSE "idle"
    /\ UNCHANGED <<mlinkVars, msrvVars, mcliVars, mPubN, mOrgN, mDials, tokVars,
                   codecVars, tblVars, bpVars, ioVars>>

\* ================================================================== codec
\* src/packet.rs on its own: a frame is written to a byte stream and read
\* back.  Bytes are the numbers 0..255.  Numbers stay below 2^31, so the
\* 8-byte form of an integer never has to be written.

\* enum PacketMessage, in the order of its variants; a variant is encoded
\* as its index, counted from 0.
PacketMessage ==
    <<"Data", "ConnectionRefused", "Disconnected", "Eof", "ReadFailure",
      "WriteFailure", "IoFailure">>

\* n as w bytes: least significant first, most significant first.
LE(n, w) == [i \in 1..w |-> (n \div (256 ^ (i - 1))) % 256]
BE(n, w) == [i \in 1..w |-> (n \div (256 ^ (w - i))) % 256]

RECURSIVE LEValue(_)
LEValue(b) == IF b = <<>> THEN 0 ELSE Head(b) + 256 * LEValue(Tail(b))

RECURSIVE BEValue(_)
BEValue(b) ==
    IF b = <<>> THEN 0 ELSE 256 * BEValue(SubSeq(b, 1, Len(b) - 1)) + b[Len(b)]

\* Variant: an integer is written as its low byte alone.
VarintEncodeByte(u) == <<u % 256>>

\* bincode, config::standard(): an integer below 251 is one byte; otherwise
\* a marker (251: u16, 252: u32) and the value, least significant first.
VarintEncode(u) ==
    IF u < 251 THEN <<u>>
    ELSE IF u < 65536 THEN <<251>> \o LE(u, 2)
    ELSE <<252>> \o LE(u, 4)

\* The inverse, for an integer of at most maxw bytes at b[pos].
VarintDecode(b, pos, maxw) ==
    IF pos > Len(b) THEN [ok |-> FALSE, val |-> 0, next |-> pos]
    ELSE LET t == b[pos]
             w == IF t = 251 THEN 2 ELSE IF t = 252 THEN 4
                  ELSE IF t = 253 THEN 8 ELSE 0
         IN  IF t < 251 THEN [ok |-> TRUE, val |-> t, next |-> pos + 1]
             ELSE IF w = 0 \/ w > maxw \/ pos + w > Len(b)
                  THEN [ok |-> FALSE, val |-> 0, next |-> pos]
             ELSE [ok |-> TRUE,
                   val |-> LEValue(SubSeq(b, pos + 1, pos + w)),
                   next |-> pos + w + 1]

\* Packet::new: the version is PACKET_VERSION; msg is the variant's index.
PacketNew(addr, msg, data_len) ==
    [ver |-> PACKET_VERSION, msg |-> msg, addr |-> addr, data_len |-> data_len]

\* bincode::encode_into_slice(packet): ver: u8, msg, addr: u64, data_len: u32.
EncodeHeader(h) ==
    <<h.ver>> \o VarintEncode(h.msg) \o VarintEncode(h.addr)
              \o VarintEncode(h.data_len)

\* Packet::write: the length of the header as u32 big-endian, the header,
\* the data.
PacketWrite(h, data) ==
    BE(Len(EncodeHeader(h)), 4) \o EncodeHeader(h) \o data

Failed(e, n) ==
    [ok |-> FALSE, err |-> e, packet |-> <<>>, data |-> <<>>, consumed |-> n]

\* bincode::decode_from_slice(buf): no field is compared with anything but
\* the number of variants; bytes after the last field are ignored.
DecodeHeader(buf) ==
    LET m == VarintDecode(buf, 2, 4)
        a == VarintDecode(buf, m.next, 8)
        l == VarintDecode(buf, a.next, 4)
    IN  IF Len(buf) < 1 \/ ~m.ok \/ m.val >= Len(PacketMessage) \/ ~a.ok \/ ~l.ok
        THEN [ok |-> FALSE]
        ELSE [ok |-> TRUE,
              packet |-> [ver |-> buf[1], msg |-> m.val, addr |-> a.val,
                          data_len |-> l.val]]

\* PacketStream::read(reader, buffer): read_exact of the 4-byte length, of
\* the header, bincode's decode, the check against buffer.len(), read_exact
\* of the payload.  The decoded header is kept beside the payload, as
\* Packet::read_header returns it.
PacketStreamRead(wire, buflen) ==
    IF Len(wire) < 4 THEN Failed("Io", Len(wire))
    ELSE LET len == BEValue(SubSeq(wire, 1, 4)) IN
    IF len > HeaderBufLen THEN Failed("BufferTooSmall", 4)
    ELSE IF Len(wire) < 4 + len THEN Failed("Io", Len(wire))
    ELSE LET d == DecodeHeader(SubSeq(wire, 5, 4 + len)) IN
    IF ~d.ok THEN Failed("Decode", 4 + len)
    ELSE IF d.packet.data_len > buflen THEN Failed("BufferTooSmall", 4 + len)
    ELSE IF Len(wire) < 4 + len + d.packet.data_len THEN Failed("Io", Len(wire))
    ELSE [ok |-> TRUE, err |-> "", packet |-> d.packet,
          data |-> SubSeq(wire, 4 + len + 1, 4 + len + d.packet.data_len),
          consumed |-> 4 + len + d.packet.data_len]

\* The inputs: flow ids and payload lengths on both sides of every edge of
\* the encoding and of the limits; the payload of length n; the bytes that
\* follow the frame on the stream.
Addrs == {0, 4, 250, 251, 65535, 65536, 2147483647}
PayloadLens == {0, 1, 250, 251, SCRATCH_SIZE, SCRATCH_SIZE + 1, ReadBufferLen,
                ReadBufferLen + 1}
Fill(n) == [i \in 1..n |-> (7 * i) % 256]
Trailer == <<170, 187>>

\* A peer writes a frame with Packet::new and Packet::write.
X_Write(msg, addr, n) ==
    /\ x_pc = "idle"
    /\ x_pc' = "written"
    /\ x_frame' = [h |-> PacketNew(addr, msg, n), data |-> Fill(n), by |-> "peer"]
    /\ x_wire' = PacketWrite(PacketNew(addr, msg, n), Fill(n)) \o Trailer
    /\ UNCHANGED <<x_res, tokVars, mioVars, tblVars, bpVars, ioVars>>

\* stream.read(&mut read_buffer) / try_read(&mut buf): as many of the
\* pending bytes as the buffer takes.
TryRead(pending, buflen) == IF pending < buflen THEN pending ELSE buflen

\* A flow worker reads one chunk from its socket, which has pending bytes to
\* deliver, and writes it as one Data frame.
X_Chunk(addr, pending) ==
    /\ x_pc = "idle"
    /\ x_pc' = "written"
    /\ LET n == TryRead(pending, ReadBufferLen) IN
       /\ x_frame' = [h |-> PacketNew(addr, 0, n), data |-> Fill(n), by |-> "worker"]
       /\ x_wire' = PacketWrite(PacketNew(addr, 0, n), Fill(n)) \o Trailer
    /\ UNCHANGED <<x_res, tokVars, mioVars, tblVars, bpVars, ioVars>>

\* A peer that is no build of this program writes a header of the same
\* layout with a version and a message of its own.
X_Foreign(ver, msg, n) ==
    /\ x_pc = "idle"
    /\ x_pc' = "written"
    /\ LET h == [ver |-> ver, msg |-> msg, addr |-> FirstToken, data_len |-> n] IN
       /\ x_frame' = [h |-> h, data |-> Fill(n), by |-> "foreign"]
       /\ x_wire' = BE(Len(EncodeHeader(h)), 4) \o EncodeHeader(h) \o Fill(n)
                    \o Trailer
    /\ UNCHANGED <<x_res, tokVars, mioVars, tblVars, bpVars, ioVars>>

\* The receiver reads one frame into its read buffer.
X_Read ==
    /\ x_pc = "written"
    /\ x_pc' = "read"
    /\ x_res' = PacketStreamRead(x_wire, ReadBufferLen)
    /\ UNCHANGED <<x_frame, x_wire, tokVars, mioVars, tblVars, bpVars, ioVars>>

\* The next frame.
X_Reset ==
    /\ x_pc = "read"
    /\ x_pc' = "idle"
    /\ x_frame' = <<>>
    /\ x_wire' = <<>>
    /\ x_res' = <<>>
    /\ UNCHANGED <<tokVars, mioVars, tblVars, bpVars, ioVars>>

\* -------------------------------------------------------- the flow table

\* HashMap::insert: the value is stored under the key whether or not the key
\* was present, and the value that was there before is returned.
HashMapInsert(m, k, v) == [map |-> [m EXCEPT ![k] = v], old |-> m[k]]

\* HashMap::remove.
HashMapRemove(m, k) == [map |-> [m EXCEPT ![k] = None], old |-> m[k]]

\* client_handler: conn_table.insert(addr, ctx); the caller sees the Option.
T_Insert(addr, ctx) ==
    /\ map' = HashMapInsert(map, addr, ctx).map
    /\ t_ret' = HashMapInsert(map, addr, ctx).old
    /\ t_call' = [op |-> "insert", token |-> addr, client |-> ctx]
    /\ UNCHANGED <<tokVars, mioVars, codecVars, bpVars, ioVars>>

\* TokenStreams::add: self.map.insert(token, client); nothing is returned.
T_Add(token, client) ==
    /\ map' = HashMapInsert(map, token, client).map
    /\ t_ret' = Unit
    /\ t_call' = [op |-> "add", token |-> token, client |-> client]
    /\ UNCHANGED <<tokVars, mioVars, codecVars, bpVars, ioVars>>

\* TokenStreams::remove: self.map.remove(&token); nothing is returned.
T_Remove(token) ==
    /\ map' = HashMapRemove(map, token).map
    /\ t_ret' = Unit
    /\ t_call' = [op |-> "remove", token |-> token]
    /\ UNCHANGED <<tokVars, mioVars, codecVars, bpVars, ioVars>>

\* ------------------------------------------------- one flow under load

\* The socket buffers of the control connection take LinkCap frames in one
\* direction; a write beyond that waits until the peer has read.
LinkHasRoom(n) == n < LinkCap

\* client_handler, branch ps.read(&mut creader): a packet is read.
B_ServerRead ==
    /\ b_spc = "read"
    /\ b_c2s > 0
    /\ b_c2s' = b_c2s - 1
    /\ b_spc' = "send"
    /\ UNCHANGED <<b_s2c, b_stx, b_crx, b_cpc, b_iw, b_ew, tokVars, mioVars, codecVars, tblVars, ioVars>>

\* client_handler: v.tx.send(packet).await completes.
B_ServerSend ==
    /\ b_spc = "send"
    /\ HasCapacity(b_stx)
    /\ b_stx' = b_stx + 1
    /\ b_spc' = "read"
    /\ UNCHANGED <<b_s2c, b_c2s, b_crx, b_cpc, b_iw, b_ew, tokVars, mioVars, codecVars, tblVars, ioVars>>

\* internet_loop, branch rx.recv(): a packet is taken and written to the
\* public socket.
B_ServerRecv ==
    /\ b_iw = "select"
    /\ b_stx > 0
    /\ b_stx' = b_stx - 1
    /\ UNCHANGED <<b_s2c, b_c2s, b_crx, b_spc, b_cpc, b_iw, b_ew, tokVars, mioVars, codecVars, tblVars, ioVars>>

\* internet_loop, branch istream.readable(): a chunk is read and the writer
\* is locked.
B_ServerChunk ==
    /\ b_iw = "select"
    /\ b_iw' = "write"
    /\ UNCHANGED <<b_s2c, b_c2s, b_stx, b_crx, b_spc, b_cpc, b_ew, tokVars, mioVars, codecVars, tblVars, ioVars>>

\* internet_loop: ps.write(&mut *writer, addr, &buf[0..len]).await completes
\* and the writer is released.
B_ServerWrite ==
    /\ b_iw = "write"
    /\ LinkHasRoom(b_s2c)
    /\ b_s2c' = b_s2c + 1
    /\ b_iw' = "select"
    /\ UNCHANGED <<b_c2s, b_stx, b_crx, b_spc, b_cpc, b_ew, tokVars, mioVars, codecVars, tblVars, ioVars>>

\* read_loop, branch ps.read(&mut sreader): a packet is read.
B_ClientRead ==
    /\ b_cpc = "read"
    /\ b_s2c > 0
    /\ b_s2c' = b_s2c - 1
    /\ b_cpc' = "send"
    /\ UNCHANGED <<b_c2s, b_stx, b_crx, b_spc, b_iw, b_ew, tokVars, mioVars, codecVars, tblVars, ioVars>>

\* read_loop: tx.send(packet).await completes.
B_ClientSend ==
    /\ b_cpc = "send"
    /\ HasCapacity(b_crx)
    /\ b_crx' = b_crx + 1
    /\ b_cpc' = "read"
    /\ UNCHANGED <<b_s2c, b_c2s, b_stx, b_spc, b_iw, b_ew, tokVars, mioVars, codecVars, tblVars, ioVars>>

\* endpoint_loop, branch rx.recv(): a packet is taken and written to the
\* origin socket.
B_ClientRecv ==
    /\ b_ew = "select"
    /\ b_crx > 0
    /\ b_crx' = b_crx - 1
    /\ UNCHANGED <<b_s2c, b_c2s, b_stx, b_spc, b_cpc, b_iw, b_ew, tokVars, mioVars, codecVars, tblVars, ioVars>>

\* endpoint_loop, branch stream.readable(): a chunk is read and the writer
\* is locked.
B_ClientChunk ==
    /\ b_ew = "select"
    /\ b_ew' = "write"
    /\ UNCHANGED <<b_s2c, b_c2s, b_stx, b_crx, b_spc, b_cpc, b_iw, tokVars, mioVars, codecVars, tblVars, ioVars>>

\* endpoint_loop: ps.write(&mut *writer, addr, &buf[..n]).await completes
\* and the writer is released.
B_ClientWrite ==
    /\ b_ew = "write"
    /\ LinkHasRoom(b_c2s)
    /\ b_c2s' = b_c2s + 1
    /\ b_ew' = "select"
    /\ UNCHANGED <<b_s2c, b_stx, b_crx, b_spc, b_cpc, b_iw, tokVars, mioVars, codecVars, tblVars, ioVars>>

\* ------------------------------------------------------------ specification

Next ==
    \/ S_AcceptControl
    \/ \E id \in Ids : S_AcceptPublic(id)
    \/ \E id \in Ids : S_Insert(id)
    \/ S_Read
    \/ \E f \in Ids : I_Read(f)
    \/ \E f \in Ids : I_Eof(f)
    \/ \E f \in Ids : I_Header(f)
    \/ \E f \in Ids : I_Payload(f)
    \/ \E f \in Ids : I_Recv(f)
    \/ \E f \in Ids : PubSend(f)
    \/ \E f \in Ids : PubClose(f)
    \/ C_Dial
    \/ C_Sleep
    \/ C_Read
    \/ \E f \in Ids : C_Join(f)
    \/ \E f \in Ids : E_Connect(f)
    \/ \E f \in Ids : E_Recv(f)
    \/ \E f \in Ids : E_Read(f)
    \/ \E f \in Ids : E_Eof(f)
    \/ \E f \in Ids : E_Header(f)
    \/ \E f \in Ids : E_Payload(f)
    \/ \E f \in Ids : OrgSend(f)
    \/ \E f \in Ids : OrgClose(f)
    \/ LinkBreak

Spec == Init /\ [][Next]_vars

MNext ==
    \/ MS_AcceptControl
    \/ MS_AcceptRival
    \/ R_Dial
    \/ R_Close
    \/ MS_BindFails
    \/ MS_AcceptFails
    \/ MS_AcceptPublic
    \/ MS_TunnelReadable
    \/ \E f \in MIds : MS_FlowReadable(f)
    \/ \E f \in MIds : MPubSend(f)
    \/ \E f \in MIds : MPubClose(f)
    \/ MC_Dial
    \/ MC_Sleep
    \/ MC_TunnelReadable
    \/ \E f \in CTok : MC_FlowReadable(f)
    \/ \E f \in CTok : MC_FlowWritable(f)
    \/ \E f \in CTok : MOrgAccept(f)
    \/ \E f \in CTok : MOrgRefuse(f)
    \/ \E f \in CTok : MOrgSend(f)
    \/ \E f \in CTok : MOrgClose(f)
    \/ MForeignBytes
    \/ MLinkBreak

SpecMio == Init /\ [][MNext]_vars

CodecNext ==
    \/ \E msg \in 0..(Len(PacketMessage) - 1), addr \in Addrs, n \in PayloadLens :
          X_Write(msg, addr, n)
    \/ \E ver \in {0, 2, 255}, msg \in {0, 2, Len(PacketMessage)}, n \in {0, 1} :
          X_Foreign(ver, msg, n)
    \/ \E msg \in {Len(PacketMessage)}, n \in {0, 1} :
          X_Foreign(PACKET_VERSION, msg, n)
    \/ \E addr \in {FirstToken}, pending \in PayloadLens \ {0} : X_Chunk(addr, pending)
    \/ X_Read
    \/ X_Reset

SpecCodec == Init /\ [][CodecNext]_vars

TableNext ==
    \/ \E addr \in Ids, ctx \in Handles : T_Insert(addr, ctx)
    \/ \E token \in Ids, client \in Handles : T_Add(token, client)
    \/ \E token \in Ids : T_Remove(token)

SpecTable == Init /\ [][TableNext]_vars

LoadNext ==
    \/ B_ServerRead
    \/ B_ServerSend
    \/ B_ServerRecv
    \/ B_ServerChunk
    \/ B_ServerWrite
    \/ B_ClientRead
    \/ B_ClientSend
    \/ B_ClientRecv
    \/ B_ClientChunk
    \/ B_ClientWrite

SpecLoad == Init /\ [][LoadNext]_vars

\* ------------------------------------ TokenStreams: the control-link input
\* The event-loop peers collect what the control link yields in tun_input
\* (flush_read) and take frames off its head (read_packet). A frame is a
\* header of HEADER_SIZE bytes followed by data_len bytes of payload.

MaxFrames == 2
MaxPayload == 2

\* The header's width and layout are those of the wire format: u8 version,
\* u8 kind, u64 flow_id, u32 payload_len, fixed-width, network byte order.
HEADER_SIZE == 14

DataKind == 0

\* n as w bytes, most significant first.
RECURSIVE ToBE(_, _)
ToBE(n, w) == IF w = 0 THEN <<>> ELSE ToBE(n \div 256, w - 1) \o <<n % 256>>

FixedHeader(addr, n) == <<PACKET_VERSION, DataKind>> \o ToBE(addr, 8) \o ToBE(n, 4)

\* The value of the big-endian bytes b. The fields are 32 and 64 bits wide;
\* every value of 2^16 or more is represented by 2^16, which exceeds every
\* buffer length and every token that occurs here.
FromBE(b) ==
    IF \E i \in 1..(Len(b) - 2) : b[i] # 0
    THEN 65536
    ELSE 256 * b[Len(b) - 1] + b[Len(b)]

\* Packet::from_buffer: the header at the head of the buffer.
FromBuffer(buf) ==
    [version  |-> buf[1],
     addr     |-> FromBE(SubSeq(buf, 3, 10)),
     data_len |-> FromBE(SubSeq(buf, 11, 14))]

\* BytesMut::advance(n)
Advance(buf, n) == SubSeq(buf, n + 1, Len(buf))

RTokens == {FirstToken, FirstToken + 1}

\* read_packet on the buffer input with the flows m; write_ok is whether
\* write_all to the flow's socket succeeds.
ReadPacket(input, m, write_ok) ==
    IF Len(input) < HEADER_SIZE
    THEN [input |-> input, map |-> m, ret |-> [kind |-> "Ok", n |-> 0, token |-> 0]]
    ELSE LET p == FromBuffer(input)
             token == p.addr
             data_len == p.data_len
         IN  IF HEADER_SIZE + data_len > Len(input)
             THEN [input |-> input, map |-> m,
                   ret |-> [kind |-> "Ok", n |-> 0, token |-> token]]
             ELSE LET body == Advance(input, HEADER_SIZE)
                  IN  IF token \in m
                      THEN IF write_ok
                           THEN [input |-> Advance(body, data_len), map |-> m,
                                 ret |-> [kind |-> "Ok", n |-> data_len, token |-> token]]
                           ELSE [input |-> Advance(body, data_len), map |-> m \ {token},
                                 ret |-> [kind |-> "Err", n |-> 0, token |-> token]]
                      ELSE [input |-> body, map |-> m,
                            ret |-> [kind |-> "Ok", n |-> data_len, token |-> token]]

\* The peer writes a Data frame for flow addr with n bytes of payload.
R_PeerWrite(addr, n) ==
    /\ r_sent < MaxFrames
    /\ r_sent' = r_sent + 1
    /\ r_wire' = r_wire \o FixedHeader(addr, n) \o Fill(n)
    /\ UNCHANGED <<tun_input, r_map, r_ret, wrVars, tokVars, mioVars, codecVars, tblVars, bpVars>>

\* flush_read: the k bytes that have arrived are appended to tun_input.
R_FlushRead(k) ==
    /\ k <= Len(r_wire)
    /\ tun_input' = tun_input \o SubSeq(r_wire, 1, k)
    /\ r_wire' = Advance(r_wire, k)
    /\ UNCHANGED <<r_map, r_ret, r_sent, wrVars, tokVars, mioVars, codecVars, tblVars, bpVars>>

R_ReadPacket(write_ok) ==
    LET r == ReadPacket(tun_input, r_map, write_ok)
    IN  /\ tun_input' = r.input
        /\ r_map' = r.map
        /\ r_ret' = r.ret
        /\ UNCHANGED <<r_wire, r_sent, wrVars, tokVars, mioVars, codecVars, tblVars, bpVars>>

InputNext ==
    \/ \E addr \in RTokens, n \in 0..MaxPayload : R_PeerWrite(addr, n)
    \/ \E k \in 1..(MaxFrames * (HEADER_SIZE + MaxPayload)) : R_FlushRead(k)
    \/ \E write_ok \in BOOLEAN : R_ReadPacket(write_ok)

SpecInput == Init /\ [][InputNext]_vars

\* ------------------------------------ PacketStream on a writer that fails
\* write_header and write_data take any W: Write. The writer is given by the
\* writes it refuses (fails) and by the number of bytes a refused write has
\* taken before its error (cut).

WriteStages == {"prefix", "header", "data"}

\* writer.write_all(bytes), the stage-th write of the call.
WriteAll(wire, bytes, stage, fails, cut) ==
    IF stage \in fails
    THEN [ok |-> FALSE,
          wire |-> wire \o SubSeq(bytes, 1, IF cut < Len(bytes) THEN cut ELSE Len(bytes))]
    ELSE [ok |-> TRUE, wire |-> wire \o bytes]

\* PacketStream::write_header: the length, then the header; the first error
\* ends the call.
WriteHeader(wire, packet, fails, cut) ==
    LET enc == EncodeHeader(packet)
        w1 == WriteAll(wire, BE(Len(enc), 4), "prefix", fails, cut)
        w2 == WriteAll(w1.wire, enc, "header", fails, cut)
    IN  IF ~w1.ok THEN w1 ELSE w2

\* PacketStream::write_data: write_header's result is not looked at; the
\* call returns what the write of the data returned.
WriteData(wire, addr, data, fails, cut) ==
    LET h == WriteHeader(wire, PacketNew(addr, DataKind, Len(data)), fails, cut)
        d == WriteAll(h.wire, data, "data", fails, cut)
    IN  [ok |-> d.ok, wire |-> d.wire, header_ok |-> h.ok, header_wire |-> h.wire]

\* PacketStream::write_message returns write_header's result.
WriteMessage(wire, addr, msg, fails, cut) ==
    LET h == WriteHeader(wire, PacketNew(addr, msg, 0), fails, cut)
    IN  [ok |-> h.ok, wire |-> h.wire, header_ok |-> h.ok, header_wire |-> h.wire]

W_WriteData(addr, n, fails, cut) ==
    LET r == WriteData(<<>>, addr, Fill(n), fails, cut)
    IN  /\ w_wire' = r.wire
        /\ w_call' = [op |-> "write_data", addr |-> addr, data |-> Fill(n),
                      header_ok |-> r.header_ok, header_wire |-> r.header_wire]
        /\ w_ret' = IF r.ok THEN "Ok" ELSE "Err"
        /\ UNCHANGED <<inVars, tokVars, mioVars, codecVars, tblVars, bpVars>>

W_WriteMessage(addr, msg, fails, cut) ==
    LET r == WriteMessage(<<>>, addr, msg, fails, cut)
    IN  /\ w_wire' = r.wire
        /\ w_call' = [op |-> "write_message", addr |-> addr, data |-> <<>>,
                      header_ok |-> r.header_ok, header_wire |-> r.header_wire]
        /\ w_ret' = IF r.ok THEN "Ok" ELSE "Err"
        /\ UNCHANGED <<inVars, tokVars, mioVars, codecVars, tblVars, bpVars>>

WriterNext ==
    \/ \E addr \in Addrs, n \in 0..MaxPayload, fails \in SUBSET WriteStages, cut \in 0..1 :
          W_WriteData(addr, n, fails, cut)
    \/ \E addr \in Addrs, msg \in 1..3, fails \in SUBSET WriteStages, cut \in 0..1 :
          W_WriteMessage(addr, msg, fails, cut)

SpecWriter == Init /\ [][WriterNext]_vars

\* With fairness of the Client's own steps: main's sleep returns, its dial
\* returns, and the reader is polled.
FairSpec == Spec /\ WF_vars(C_Sleep) /\ WF_vars(C_Dial) /\ WF_vars(C_Read)

\* ============================================================ properties

\* s is the stream <<f,1>>, <<f,2>>, ... read from the sockets of flow f.
IsStream(f, s) == \A i \in 1..Len(s) : s[i] = <<f, i>>

\* Nothing is left for the two peers to do on an established link.
Quiet ==
    /\ link = "up"
    /\ spc # "insert"
    /\ s2c = <<>>
    /\ c2s = <<>>
    /\ \A f \in Ids :
        /\ iw[f] \in {"none", "idle", "done"}
        /\ stx[f] = <<>>
        /\ pubIn[f] = 0
        /\ iw[f] = "idle" => ~pubEof[f]
        /\ ew[f] \in {"none", "idle"}
        /\ crx[f] = <<>>
        /\ orgIn[f] = 0
        /\ ew[f] = "idle" => ~orgEof[f]

\* C1: in both directions the chunks written to the destination socket of
\* a flow are at every moment a prefix of the chunks read from the opposite
\* socket of the flow: nothing lost, duplicated or reordered.
C1_BytePrefix ==
    \A f \in Ids :
        /\ IsStream(f, orgOut[f])
        /\ IsStream(f, pubOut[f])
        /\ link = "up" => /\ Len(orgOut[f]) <= rdPub[f]
                          /\ Len(pubOut[f]) <= rdOrg[f]

\* C2: on each wire a header is followed at once by the payload of the
\* same frame; the only header without its payload is the last unit on the
\* wire, and the worker that wrote it holds the writer mutex and is about
\* to write the payload.
Contiguous(w, mtx, st) ==
    \A i \in 1..Len(w) :
        /\ w[i].t = "H" =>
              IF i < Len(w)
              THEN w[i + 1].t = "P" /\ w[i + 1].id = w[i].id
              ELSE mtx = w[i].id /\ st[w[i].id] = "pay"
        /\ w[i].t = "P" => i > 1 /\ w[i - 1].t = "H" /\ w[i - 1].id = w[i].id

C2_FrameContiguous ==
    /\ Contiguous(s2c, cwriter_mtx, iw)
    /\ Contiguous(c2s, swriter_mtx, ew)

\* a frame is half written while another worker waits to send its own.
C2_Witness ==
    \E f, g \in Ids :
        /\ f # g
        /\ iw[f] = "pay"
        /\ iw[g] = "lock"
        /\ s2c # <<>>
        /\ s2c[Len(s2c)] = Header(f)

\* C4: a flow-local failure never ends the control link: neither reader
\* leaves its loop because the queue of one flow is closed.
C4_FlowFailureLocal ==
    /\ slast # "send_failed"
    /\ clast # "send_failed"

\* C6: once nothing is left to do, a flow whose worker has exited on
\* either peer is in neither flow table.
C6_ClosedFlowsLeaveTables ==
    Quiet =>
        \A f \in Ids :
            (iw[f] = "done" \/ (elast[f] # "none" /\ ew[f] = "none"))
                => (f \notin s_conn_table /\ f \notin c_conn_table)

\* C9: once nothing is left to do, a flow whose origin dial was refused is
\* in neither flow table (the Server was told and closed its public socket).
C9_RefusedDialReported ==
    Quiet =>
        \A f \in Ids :
            (elast[f] = "refused" /\ ew[f] = "none") =>
                (f \notin c_conn_table /\ f \notin s_conn_table /\ ~PubOpen(f))

\* C10: outside read_loop the Client holds no flow and no origin socket, a
\* new session starts with an empty flow table, and the Client always comes
\* back to dialling: after a lost link and after a failed dial.
ClientClean ==
    /\ c_conn_table = {}
    /\ \A f \in Ids : ew[f] = "none" /\ ~OrgOpen(f) /\ crx[f] = <<>>

DataBefore(w, i, f) ==
    Cardinality({j \in 1..(i - 1) : w[j].kind = "Data" /\ w[j].id = f})

\* Every terminal frame in flight on w has behind the receiver's back no
\* DATA frame of its flow: those its sender produced before it were
\* received (got) or are ahead of it on w.
TerminalInOrder(w, got) ==
    \A i \in 1..Len(w) :
        Terminal(w[i].kind) => got[w[i].id] + DataBefore(w, i, w[i].id) >= w[i].after

\* C8: the receiver never observes a terminal frame for a flow before a
\* DATA frame for the flow that the same sender produced earlier.
C8_TerminalAfterData ==
    /\ TerminalInOrder(ms2c, c_got)
    /\ TerminalInOrder(mc2s, s_got)

\* A terminal frame is in flight behind a DATA frame of its flow.
C8_Witness ==
    \E i \in 1..Len(ms2c) :
        /\ Terminal(ms2c[i].kind)
        /\ ms2c[i].after >= 1
        /\ DataBefore(ms2c, i, ms2c[i].id) >= 1

\* The step writes a frame bearing f to the wire w.
SendsFor(w, wn, f) ==
    /\ Len(wn) = Len(w) + 1
    /\ Decodes(wn[Len(wn)])
    /\ wn[Len(wn)].id = f

\* C7: once a peer has sent or received a terminal frame for a flow id on
\* a control connection, it produces no further frame bearing that id.
C7_TerminalAbsorbing ==
    [][\A f \in CTok :
         /\ c_term[f] => ~SendsFor(mc2s, mc2s', f)
         /\ s_term[f] => ~SendsFor(ms2c, ms2c', f)]_vars

\* C3: payload read from a socket of flow F is written only to the
\* opposite socket of F: never to a socket of another flow, never to the
\* control connection itself.
C3_PayloadOnlyToItsFlow ==
    /\ \A f \in CTok :
        /\ \A i \in 1..Len(s_out[f]) : s_out[f][i][1] = f
        /\ \A i \in 1..Len(o_out[f]) : o_out[f][i][1] = f
    /\ \A i \in 1..Len(ms2c) : ms2c[i].kind = "Raw" => ms2c[i].data = NoChunk
    /\ \A i \in 1..Len(mc2s) : mc2s[i].kind = "Raw" => mc2s[i].data = NoChunk

\* C5: when frames from the control connection fail to decode, the Server
\* tears down every flow and returns to accepting a control connection.
C5_ServerTearsDown ==
    s_decode_failed => (mspc = "accept" /\ s_map = {})

\* C11: the Server process terminates only on the fatal bind failure
\* (address in use); every other error leaves it running, back in
\* tunnel_accept.
C11_ExitsOnlyOnBindFailure ==
    mspc # "failed"

\* ------------------------------------------------- properties of the codec

\* A frame as the protocol defines it: version 1, a known kind, a payload
\* of the announced length within the maximum, and none unless DATA.
ValidFrame(fr) ==
    /\ fr.h.ver = PACKET_VERSION
    /\ fr.h.msg < Len(PacketMessage)
    /\ fr.h.data_len = Len(fr.data)
    /\ fr.h.data_len <= SCRATCH_SIZE
    /\ fr.h.msg # 0 => fr.h.data_len = 0

\* C12: reading the bytes written for a valid frame yields the same
\* version, kind, flow id, payload length and payload, and consumes exactly
\* 4 + header_len + payload_len bytes: what follows is left on the stream.
C12_RoundTrip ==
    (x_pc = "read" /\ ValidFrame(x_frame)) =>
        /\ x_res.ok
        /\ x_res.packet = x_frame.h
        /\ x_res.data = x_frame.data
        /\ x_res.consumed = 4 + Len(EncodeHeader(x_frame.h)) + Len(x_frame.data)
        /\ SubSeq(x_wire, x_res.consumed + 1, Len(x_wire)) = Trailer

\* A valid frame whose flow id and payload length need the long form of
\* the encoding was read back.
C12_Witness ==
    /\ x_pc = "read"
    /\ ValidFrame(x_frame)
    /\ x_frame.h.addr >= 65536
    /\ x_frame.h.data_len >= 251

\* C13: reading a frame whose version is not 1 fails with InvalidVersion
\* and hands nothing of it to the caller.
C13_VersionGating ==
    (x_pc = "read" /\ x_frame.h.ver # PACKET_VERSION) =>
        (~x_res.ok /\ x_res.err = "InvalidVersion")

\* C14: reading a frame whose payload length exceeds the maximum payload
\* size (8 KiB) fails, before any payload byte is handed to the caller.
C14_PayloadLimit ==
    (x_pc = "read" /\ x_frame.h.data_len > SCRATCH_SIZE) =>
        (~x_res.ok /\ x_res.data = <<>>)

\* C15: reading a frame that is not DATA and announces a payload fails.
C15_NonDataHasNoPayload ==
    (x_pc = "read" /\ x_frame.h.msg # 0 /\ x_frame.h.data_len > 0) => ~x_res.ok

\* C16: the data buffered for a flow while its origin connection is being
\* established is written to the origin socket when it leaves the buffer,
\* unless the flow ends with an error: it is never silently discarded.
C16_NoSilentDiscard ==
    [][\A f \in CTok :
         (out_bytes[f] # <<>> /\ out_bytes'[f] = <<>> /\ c_map'[f] # "absent")
             => o_out'[f] = o_out[f] \o out_bytes[f]]_vars

C19_FailedInsertKeepsEntry ==
    [][(t_call'.op \in {"insert", "add"} /\ map[t_call'.token] # None)
          => (t_ret' \notin {None, Unit} /\ map' = map)]_vars

\* C20: on the Client a frame bearing an id that is not registered causes one
\* dial of the origin and registers the id, with the frame first in the new
\* worker's queue; a frame bearing a registered id whose worker runs is
\* queued to that worker and causes no dial.
C20_OneDialPerFlow ==
    [][\A f \in Ids :
         /\ (ew[f] # "connecting" /\ ew'[f] = "connecting")
               => /\ f \notin c_conn_table
                  /\ c_conn_table' = c_conn_table \cup {f}
                  /\ FrameReady(s2c) /\ Route(s2c[1].id) = f
                  /\ crx'[f] = <<Packet(s2c[1].id, s2c[2].data)>>
                  /\ \A g \in Ids \ {f} : ew'[g] = ew[g]
         /\ (/\ f \in c_conn_table
             /\ cpc' = "run" /\ link' = "up" /\ Len(s2c') < Len(s2c)
             /\ Route(s2c[1].id) = f)
               => /\ ew' = ew
                  /\ c_conn_table' = c_conn_table
                  /\ crx'[f] = Append(crx[f], Packet(s2c[1].id, s2c[2].data))]_vars

\* A registered flow whose origin connection has received two payloads: the
\* one that caused the dial and a later one.
C20_Witness ==
    \E f \in Ids : f \in c_conn_table /\ ew[f] = "idle" /\ Len(orgOut[f]) >= 2

\* C21: a terminal frame bearing an id that is not in the Client's table is
\* dropped: the step that takes it off the control connection dials no
\* origin, registers no id and leaves the Client running.
C21_UnknownTerminalDropped ==
    [][(/\ mcpc = "run" /\ mlink = "up" /\ mlink' = "up"
        /\ ms2c # <<>> /\ ms2c' = Tail(ms2c)
        /\ Decodes(Head(ms2c))
        /\ Terminal(Head(ms2c).kind)
        /\ c_map[Head(ms2c).id] = "absent")
          => (c_map' = c_map /\ o_conn' = o_conn /\ mcpc' = "run")]_vars

\* C22: a peer that receives a terminal frame for a flow of its table closes
\* its socket of that flow and removes the flow from the table, and writes
\* no payload to the socket on account of that frame.
C22_TerminalClosesFlow ==
    [][(/\ mcpc = "run" /\ mlink = "up" /\ mlink' = "up"
        /\ ms2c # <<>> /\ ms2c' = Tail(ms2c)
        /\ Decodes(Head(ms2c))
        /\ Terminal(Head(ms2c).kind)
        /\ c_map[Head(ms2c).id] # "absent")
          => /\ c_map'[Head(ms2c).id] = "absent"
             /\ o_conn'[Head(ms2c).id] = "none"
             /\ o_out' = o_out]_vars

\* C23: the terminal frame a peer sends when a flow terminates locally bears
\* the id of that flow, never the token of the control connection itself.
C23_TerminalBearsFlowId ==
    /\ \A i \in 1..Len(ms2c) : Terminal(ms2c[i].kind) => ms2c[i].id \in MIds
    /\ \A i \in 1..Len(mc2s) : Terminal(mc2s[i].kind) => mc2s[i].id \in MIds

\* C24: when the Server reads a clean end of stream from a public socket,
\* the frame it sends for that flow has kind Eof.
C24_EofFrameOnCleanEof ==
    [][\A f \in MIds :
         (/\ mspc = "serve" /\ mspc' = "serve"
          /\ f \in s_map /\ f \notin s_map'
          /\ s_eof[f] /\ s_in[f] = 0
          /\ Len(ms2c') = Len(ms2c) + 1)
            => /\ ms2c'[Len(ms2c')].id = f
               /\ ms2c'[Len(ms2c')].kind = "Eof"]_vars

\* C25: while the first payload of a flow is still buffered on the Client,
\* nothing else is written to the flow's origin socket: the next bytes the
\* origin receives are the buffered ones.
C25_FirstPayloadFirst ==
    [][\A f \in MIds :
         (out_bytes[f] # <<>> /\ o_out'[f] # o_out[f])
            => o_out'[f] = o_out[f] \o out_bytes[f]]_vars

\* C26: a flow's queue never holds more than 32 frames; a reader whose
\* frame finds the queue full keeps the frame and waits, and when it stops
\* waiting the frame is in the queue.
C26_QueueBounded ==
    /\ [](b_stx <= QueueCap /\ b_crx <= QueueCap)
    /\ [][/\ (b_spc = "send" /\ b_stx >= QueueCap) => b_spc' = "send"
          /\ (b_spc = "send" /\ b_spc' = "read") => b_stx' = b_stx + 1
          /\ (b_cpc = "send" /\ b_crx >= QueueCap) => b_cpc' = "send"
          /\ (b_cpc = "send" /\ b_cpc' = "read") => b_crx' = b_crx + 1]_vars

\* The Server's reader holds a frame for a queue that is full.
C26_Witness ==
    /\ b_spc = "send"
    /\ b_stx = QueueCap

\* C29: the peers never reach the state in which each reader waits on a
\* full queue while the worker that would drain it waits inside a write to
\* the control connection that the other reader will not read.
C29_NoCircularWait ==
    ~(/\ b_spc = "send" /\ ~HasCapacity(b_stx)
      /\ b_iw = "write" /\ ~LinkHasRoom(b_s2c)
      /\ b_cpc = "send" /\ ~HasCapacity(b_crx)
      /\ b_ew = "write" /\ ~LinkHasRoom(b_c2s))

\* C27: the Data frame a flow worker writes for one chunk carries at most
\* the maximum payload size (8 KiB), and the other peer reads it.
C27_ChunkWithinLimit ==
    (x_pc # "idle" /\ x_frame.by = "worker") =>
        /\ x_frame.h.data_len <= SCRATCH_SIZE
        /\ x_pc = "read" => x_res.ok

\* The frame at the head of wire w is for a flow of the table whose worker
\* has exited: sending it into the flow's queue fails.
SendFails(w, table, worker) ==
    /\ link = "up"
    /\ FrameReady(w)
    /\ Route(w[1].id) \in table
    /\ worker[Route(w[1].id)] = "done"

\* C28: a reader that finds the queue of a flow closed removes the flow's
\* entry from the table and goes on serving the control link: it does not
\* leave its loop on account of the failed send.
C28_SendFailureRemovesEntry ==
    [][/\ (spc = "serve" /\ SendFails(c2s, s_conn_table, iw))
          => /\ ~(spc' = "accept" /\ slast' = "send_failed")
             /\ (link' = "up" /\ Len(c2s') < Len(c2s))
                   => Route(c2s[1].id) \notin s_conn_table'
       /\ (cpc = "run" /\ SendFails(s2c, c_conn_table, ew))
          => /\ ~(cpc' = "sleep" /\ clast' = "send_failed")
             /\ (link' = "up" /\ Len(s2c') < Len(s2c))
                   => Route(s2c[1].id) \notin c_conn_table']_vars

\* C30: the worker of an accepted connection runs before its id is in the
\* table, yet the Server's reader never looks up an id that is absent: it
\* never leaves for an unknown id, and whenever it may run, every frame from
\* the Client waiting on the control link bears an id of the table.
C30_InsertBeforeLookup ==
    /\ slast # "unknown_id"
    /\ (spc = "serve" /\ link = "up")
          => \A i \in 1..Len(c2s) : Route(c2s[i].id) \in s_conn_table

\* The worker just spawned has sent its first frame and the reply of the
\* Client is on the control link while the id is not yet in the table.
C30_Witness ==
    /\ spc = "insert"
    /\ link = "up"
    /\ \E i \in 1..Len(c2s) : Route(c2s[i].id) \notin s_conn_table

\* C31: the ids the Server mints are none of the reserved tokens, and the
\* Server's table entry of the control stream is never used as a flow: no
\* frame that reaches the Server bears the token of the control stream, and
\* no payload is written to the control stream as if to a flow's socket.
C31_FlowIdsAvoidReserved ==
    /\ token_id >= FirstToken
    /\ s_map \subseteq MIds
    /\ \A i \in 1..Len(mc2s) : Decodes(mc2s[i]) => mc2s[i].id # TUNNEL_STREAM
    /\ \A i \in 1..Len(ms2c) : Decodes(ms2c[i])

\* C32: the control-link input buffer always begins at a frame boundary:
\* what is buffered and what is still to arrive is a run of whole frames,
\* and a read_packet step leaves the buffer as it is when its head is not a
\* complete frame and otherwise takes exactly the header and the payload
\* off it, whether the flow is known or not and whether the write succeeded.
RECURSIVE Framed(_)
Framed(buf) ==
    \/ buf = <<>>
    \/ /\ Len(buf) >= HEADER_SIZE
       /\ FromBuffer(buf).version = PACKET_VERSION
       /\ HEADER_SIZE + FromBuffer(buf).data_len <= Len(buf)
       /\ Framed(Advance(buf, HEADER_SIZE + FromBuffer(buf).data_len))

CompleteFrame(buf) ==
    /\ Len(buf) >= HEADER_SIZE
    /\ HEADER_SIZE + FromBuffer(buf).data_len <= Len(buf)

C32_FrameBoundary ==
    /\ [](Framed(tun_input \o r_wire))
    /\ [][r_wire' = r_wire =>
            IF CompleteFrame(tun_input)
            THEN tun_input' = Advance(tun_input, HEADER_SIZE + FromBuffer(tun_input).data_len)
            ELSE tun_input' = tun_input]_vars


\* C33: write_data writes the payload only after the length prefix and the
\* header were written: when the header write failed, write_data returns
\* the error and the wire holds what the header write left, no payload byte.
C33_PayloadAfterHeader ==
    (w_call.op = "write_data" /\ ~w_call.header_ok) =>
        /\ w_ret = "Err"
        /\ w_wire = w_call.header_wire

====
